---- MODULE Spec2Model ----
\* A model of src/module.c, the hotfix-kvadra-touchpad kernel module:
\* I2C controller detection, the shared-interrupt hooks, the /proc report
\* and the module's load/unload sequence.
EXTENDS Integers, Sequences, FiniteSets, TLC

\* ------------------------------------------------------------------ bounds

\* The longest device catalog tried (the registry holds I2C_CONTROLLER_MAX).
MaxCatalog == 17
\* Every catalog of at most this many devices is tried exhaustively.
MaxShort == 2
\* Interrupt deliveries per run.
MaxDeliveries == 2
\* Processors that take interrupts.
NumCpus == 2

\* --------------------------------------------------------- program constants

I2C_CONTROLLER_MAX == 16
PCI_VENDOR_ID_INTEL == 32902
\* 0x51e8, 0x51e9, 0x51c5, 0x51c6
KvadraDeviceIds == {20968, 20969, 20933, 20934}
ENOBUFS == 105
ENOENT == 2
\* What request_irq may answer when it refuses (-EBUSY, -EINVAL).
RequestIrqErrors == {-16, -22}
INT_MAX == 2147483647
INT_MIN == -2147483647 - 1
\* dev == NULL
NULL == 0

\* ------------------------------------------------------------ the platform

\* The devices a catalog is made of: Intel controllers of the whitelist, an
\* Intel device that is not on it, and a whitelisted device id under another
\* vendor; on two interrupt lines.
PciDev(v, d, q) == [vendor |-> v, device |-> d, irq |-> q]
\* Device id 0x51e7, vendor 0x1002.
NotListed == PciDev(PCI_VENDOR_ID_INTEL, 20967, 5)
NotIntel == PciDev(4098, 20968, 9)
DeviceKinds ==
    { PciDev(PCI_VENDOR_ID_INTEL, 20968, 5),
      PciDev(PCI_VENDOR_ID_INTEL, 20934, 9),
      NotListed,
      NotIntel }

\* The k-th controller of a long catalog: the whitelist in rotation, on two
\* interrupt lines.
LongDev(k) ==
    PciDev(PCI_VENDOR_ID_INTEL,
           CASE k % 4 = 0 -> 20968 [] k % 4 = 1 -> 20969
             [] k % 4 = 2 -> 20933 [] OTHER -> 20934,
           IF k % 3 = 0 THEN 9 ELSE 5)

\* Every catalog of at most MaxShort devices.
ShortCatalogs == UNION { [1..n -> DeviceKinds] : n \in 0..MaxShort }
\* The four whitelisted ids interleaved with devices that do not match, and
\* three controllers on one line.
MixedCatalogs ==
    { <<LongDev(1), NotListed, LongDev(2), NotIntel, LongDev(3), LongDev(4)>>,
      <<LongDev(1), LongDev(2), NotListed, LongDev(4)>> }
\* Catalogs of I2C_CONTROLLER_MAX controllers and more, and such catalogs with
\* one device that does not match put in.
LongCatalogs ==
    { [k \in 1..n |-> LongDev(k)] : n \in I2C_CONTROLLER_MAX..MaxCatalog }
    \cup { [k \in 1..(I2C_CONTROLLER_MAX + 1) |->
              IF k = g THEN NotListed ELSE LongDev(k)] :
           g \in {1, I2C_CONTROLLER_MAX} }
Catalogs == ShortCatalogs \cup MixedCatalogs \cup LongCatalogs

Cpus == 1..NumCpus

VARIABLES
    catalog,               \* the platform's PCI devices, in enumeration order
    pc,                    \* where the control context (insmod/rmmod) is
    ret,                   \* what mod_init returned to the loader, once it has
    rc,                    \* mod_init's and hook_interrupts' local rc
    dev,                   \* i2c_controller_detect's dev (an index, or NULL)
    i2c_controller_list,
    i2c_controller_count,
    i,                     \* hook_interrupts' i
    count,                 \* release_interrupts' parameter
    ri,                    \* release_interrupts' i
    irq_actions,           \* the kernel's registered <<irq, dev_id>> actions
    proc_entry,            \* whether the /proc entry exists
    free_log,              \* the free_irq calls of the latest release_interrupts
    cpu,                   \* per processor, the handlers still to run
    invoked,               \* per entry, the irq_handler invocations completed
    delivered,             \* interrupt deliveries so far
    irq_ret,               \* what the latest irq_handler invocation returned
    rd_pc, rd_i, m,        \* a read of the /proc entry: proc_show's i and seq_file
    seen,                  \* the counter values that read has fetched
    rd_start               \* the counters, as they were when that read
                           \* began, of the entries it has yet to print

ctlVars == <<pc, ret, rc, dev, i, count, ri>>
regVars == <<i2c_controller_list, i2c_controller_count>>
irqVars == <<irq_actions, free_log>>
cpuVars == <<cpu, invoked, delivered, irq_ret>>
rdVars == <<rd_pc, rd_i, m, seen, rd_start>>
vars == <<catalog, ctlVars, regVars, irqVars, proc_entry, cpuVars, rdVars>>

Slots == 0..(I2C_CONTROLLER_MAX - 1)

Init ==
    /\ catalog \in Catalogs
    /\ pc = "unloaded"
    /\ ret = <<>>
    /\ rc = 0
    /\ dev = NULL
    /\ i2c_controller_list = [s \in Slots |-> [irq |-> 0, isr_count |-> 0]]
    /\ i2c_controller_count = 0
    /\ i = 0
    /\ count = 0
    /\ ri = 0
    /\ irq_actions = {}
    /\ proc_entry = FALSE
    /\ free_log = <<>>
    /\ cpu = [c \in Cpus |-> <<>>]
    /\ invoked = [s \in Slots |-> 0]
    /\ delivered = 0
    /\ irq_ret = "none"
    /\ rd_pc = "idle"
    /\ rd_i = 0
    /\ m = ""
    /\ seen = <<>>
    /\ rd_start = <<>>

\* ------------------------------------------------------- device enumeration

\* An enumeration that does not advance past `from`.
pci_get_device_same(from) ==
    IF from # NULL THEN from
    ELSE IF \E k \in 1..Len(catalog) : catalog[k].vendor = PCI_VENDOR_ID_INTEL
         THEN CHOOSE k \in 1..Len(catalog) :
                 /\ catalog[k].vendor = PCI_VENDOR_ID_INTEL
                 /\ \A j \in 1..(k - 1) :
                       catalog[j].vendor # PCI_VENDOR_ID_INTEL
         ELSE NULL

\* pci_get_device(PCI_VENDOR_ID_INTEL, PCI_ANY_ID, from): the next device of
\* the vendor after `from`, or NULL.
pci_get_device(from) ==
    LET next == { k \in (from + 1)..Len(catalog) :
                    catalog[k].vendor = PCI_VENDOR_ID_INTEL }
    IN  IF next = {} THEN NULL
        ELSE CHOOSE k \in next : \A j \in next : k <= j

\* A switch that lacks the case 0x51c5.
IsKvadraControllerShort(d) == d.device \in {20968, 20969, 20934}

\* The switch's case labels.
IsKvadraController(d) == d.device \in KvadraDeviceIds

\* A capacity test that lets one entry too many in.
ListFullLate(n) == n > I2C_CONTROLLER_MAX

\* The test that ends detection with -ENOBUFS.
ListFull(n) == n = I2C_CONTROLLER_MAX

\* insmod: mod_init runs up to its call of i2c_controller_detect, which
\* fetches the first device.
Insmod ==
    /\ pc = "unloaded"
    /\ ret = <<>>
    /\ pc' = "detect"
    /\ dev' = pci_get_device(NULL)
    /\ UNCHANGED <<catalog, ret, rc, i, count, ri, regVars, irqVars,
                   proc_entry, cpuVars, rdVars>>

\* One turn of i2c_controller_detect's while loop, or its return 0.
DetectStep ==
    /\ pc = "detect"
    /\ IF dev = NULL
       THEN /\ rc' = 0
            /\ pc' = "detect_ret"
            /\ UNCHANGED <<dev, regVars>>
       ELSE IF IsKvadraController(catalog[dev])
       THEN /\ i2c_controller_list' =
                  [i2c_controller_list EXCEPT
                     ![i2c_controller_count].irq = catalog[dev].irq]
            /\ i2c_controller_count' = i2c_controller_count + 1
            /\ IF ListFull(i2c_controller_count')
               THEN /\ rc' = -ENOBUFS
                    /\ pc' = "detect_ret"
                    /\ UNCHANGED dev
               ELSE /\ dev' = pci_get_device(dev)
                    /\ UNCHANGED <<pc, rc>>
       ELSE /\ dev' = pci_get_device(dev)
            /\ UNCHANGED <<pc, rc, regVars>>
    /\ UNCHANGED <<catalog, ret, i, count, ri, irqVars, proc_entry,
                   cpuVars, rdVars>>

\* mod_init going on whatever i2c_controller_detect answers.
ModInitDetectedIgnore ==
    /\ pc = "detect_ret"
    /\ pc' = "proc_create"
    /\ UNCHANGED <<catalog, ret, rc, dev, i, count, ri, regVars, irqVars,
                   proc_entry, cpuVars, rdVars>>

\* mod_init on i2c_controller_detect's answer.
ModInitDetected ==
    /\ pc = "detect_ret"
    /\ IF rc < 0
       THEN /\ ret' = <<rc>>
            /\ pc' = "unloaded"
       ELSE /\ pc' = "proc_create"
            /\ UNCHANGED ret
    /\ UNCHANGED <<catalog, rc, dev, i, count, ri, regVars, irqVars,
                   proc_entry, cpuVars, rdVars>>

\* mod_init creates the /proc entry; proc_create_single may refuse.
ModInitProcCreate ==
    /\ pc = "proc_create"
    /\ \/ /\ proc_entry' = TRUE
          /\ i' = 0
          /\ pc' = "hook"
          /\ UNCHANGED ret
       \/ /\ ret' = <<-ENOENT>>
          /\ pc' = "unloaded"
          /\ UNCHANGED <<proc_entry, i>>
    /\ UNCHANGED <<catalog, rc, dev, count, ri, regVars, irqVars,
                   cpuVars, rdVars>>

\* ------------------------------------------------------ the interrupt hooks

\* An action that passes the list, not the entry, as dev_id.
ActionSharedId(k) == <<i2c_controller_list[k].irq, 0>>

\* The line an action is registered on, and the entry it passes as dev_id.
Action(k) == <<i2c_controller_list[k].irq, k>>

\* The elements of a set of entries, in ascending order.
RECURSIVE Ascending(_)
Ascending(S) ==
    IF S = {} THEN <<>>
    ELSE LET k == CHOOSE x \in S : \A y \in S : x <= y
         IN  <<k>> \o Ascending(S \ {k})

Pending(c) == { cpu[c][k] : k \in 1..Len(cpu[c]) }

\* free_irq returns only once no processor still runs a handler of the line.
LineQuiet(line) ==
    \A c \in Cpus : \A k \in Pending(c) : i2c_controller_list[k].irq # line

\* A release loop that honours the parameter but stops one entry early.
ReleaseLimitShort(cnt) == cnt - 1

\* release_interrupts' loop bound: the parameter is not consulted.
ReleaseLimit(cnt) == i2c_controller_count

\* A hook loop that stops one entry early.
HookLimitShort == i2c_controller_count - 1

\* hook_interrupts' loop bound.
HookLimit == i2c_controller_count

\* One turn of hook_interrupts' loop: request_irq succeeds, or it refuses and
\* release_interrupts(i) is entered; after the last entry, return 0.
HookStep ==
    /\ pc = "hook"
    /\ IF i < HookLimit
       THEN \/ /\ irq_actions' = irq_actions \cup {Action(i)}
               /\ i' = i + 1
               /\ UNCHANGED <<pc, rc, count, ri, free_log>>
            \/ \E e \in RequestIrqErrors :
               /\ rc' = e
               /\ count' = i
               /\ ri' = 0
               /\ free_log' = <<>>
               /\ pc' = "rollback"
               /\ UNCHANGED <<i, irq_actions>>
       ELSE /\ rc' = 0
            /\ pc' = "hook_ret"
            /\ UNCHANGED <<i, count, ri, irqVars>>
    /\ UNCHANGED <<catalog, ret, dev, regVars, proc_entry, cpuVars, rdVars>>

\* One turn of release_interrupts' loop, a free_irq call, or its return: to
\* hook_interrupts, which returns rc, or to mod_exit.
ReleaseStep ==
    /\ pc \in {"rollback", "exit_release"}
    /\ IF ri < ReleaseLimit(count)
       THEN /\ Action(ri) \in irq_actions => LineQuiet(Action(ri)[1])
            /\ irq_actions' = irq_actions \ {Action(ri)}
            /\ free_log' = Append(free_log,
                   [dev_id |-> ri, held |-> Action(ri) \in irq_actions])
            /\ ri' = ri + 1
            /\ UNCHANGED pc
       ELSE /\ pc' = IF pc = "rollback" THEN "hook_ret" ELSE "exit_remove"
            /\ UNCHANGED <<ri, irqVars>>
    /\ UNCHANGED <<catalog, ret, rc, dev, i, count, regVars, proc_entry,
                   cpuVars, rdVars>>

\* mod_init failing without removing the /proc entry.
ModInitHookedLeak ==
    /\ pc = "hook_ret"
    /\ IF rc < 0
       THEN /\ ret' = <<rc>>
            /\ pc' = "unloaded"
       ELSE /\ ret' = <<0>>
            /\ pc' = "active"
    /\ UNCHANGED <<catalog, rc, dev, i, count, ri, regVars, irqVars,
                   proc_entry, cpuVars, rdVars>>

\* mod_init on hook_interrupts' answer: remove the /proc entry and fail, or
\* report success. remove_proc_entry waits for a read in progress.
ModInitHooked ==
    /\ pc = "hook_ret"
    /\ IF rc < 0
       THEN /\ rd_pc = "idle"
            /\ proc_entry' = FALSE
            /\ ret' = <<rc>>
            /\ pc' = "unloaded"
       ELSE /\ ret' = <<0>>
            /\ pc' = "active"
            /\ UNCHANGED proc_entry
    /\ UNCHANGED <<catalog, rc, dev, i, count, ri, regVars, irqVars,
                   cpuVars, rdVars>>

\* A mod_exit that goes straight to remove_proc_entry.
RmmodNoRelease ==
    /\ pc = "active"
    /\ count' = i2c_controller_count
    /\ ri' = 0
    /\ free_log' = <<>>
    /\ pc' = "exit_remove"
    /\ UNCHANGED <<catalog, ret, rc, dev, i, regVars, irq_actions,
                   proc_entry, cpuVars, rdVars>>

\* rmmod: mod_exit enters release_interrupts(i2c_controller_count).
Rmmod ==
    /\ pc = "active"
    /\ count' = i2c_controller_count
    /\ ri' = 0
    /\ free_log' = <<>>
    /\ pc' = "exit_release"
    /\ UNCHANGED <<catalog, ret, rc, dev, i, regVars, irq_actions,
                   proc_entry, cpuVars, rdVars>>

\* mod_exit removes the /proc entry.
ModExitRemove ==
    /\ pc = "exit_remove"
    /\ rd_pc = "idle"
    /\ proc_entry' = FALSE
    /\ pc' = "unloaded"
    /\ UNCHANGED <<catalog, ret, rc, dev, i, count, ri, regVars, irqVars,
                   cpuVars, rdVars>>

\* ------------------------------------------------------- interrupt context

\* atomic_inc on an atomic_t: a 32-bit int that wraps.
atomic_inc(v) == IF v = INT_MAX THEN INT_MIN ELSE v + 1

\* A handler that counts on the first entry, whatever p is.
irq_handler_first(p) ==
    i2c_controller_list' =
        [i2c_controller_list EXCEPT ![0].isr_count = atomic_inc(@)]

\* A handler that counts on every live entry.
irq_handler_all(p) ==
    i2c_controller_list' =
        [k \in Slots |->
           IF k < i2c_controller_count
           THEN [i2c_controller_list[k] EXCEPT !.isr_count = atomic_inc(@)]
           ELSE i2c_controller_list[k]]

\* irq_handler(irq, p): what it does to the registry.
irq_handler(p) ==
    i2c_controller_list' =
        [i2c_controller_list EXCEPT ![p].isr_count = atomic_inc(@)]

Lines == { a[1] : a \in irq_actions }

\* The platform delivers an interrupt of a line to a processor, which is to
\* run every action registered on the line.
IrqDeliver(c, line) ==
    /\ delivered < MaxDeliveries
    /\ cpu[c] = <<>>
    /\ cpu' = [cpu EXCEPT ![c] =
                 Ascending({ a[2] : a \in { b \in irq_actions : b[1] = line } })]
    /\ delivered' = delivered + 1
    /\ UNCHANGED <<catalog, ctlVars, regVars, irqVars, proc_entry, invoked,
                   irq_ret, rdVars>>

\* The tally of invocations, which stops at the largest integer.
Tally(n) == IF n = INT_MAX THEN n ELSE n + 1

\* irq_handler's return value.
irq_handler_ret(p) == "IRQ_HANDLED"

\* A processor runs the next handler of the interrupt it took.
IrqHandlerRun(c) ==
    /\ cpu[c] # <<>>
    /\ irq_handler(Head(cpu[c]))
    /\ irq_ret' = irq_handler_ret(Head(cpu[c]))
    /\ invoked' = [invoked EXCEPT ![Head(cpu[c])] = Tally(@)]
    /\ cpu' = [cpu EXCEPT ![c] = Tail(@)]
    /\ UNCHANGED <<catalog, ctlVars, i2c_controller_count, irqVars,
                   proc_entry, delivered, rdVars>>

\* The entries with an action registered on a line.
HookedOn(line) == { a[2] : a \in { b \in irq_actions : b[1] = line } }

\* The largest of a non-empty set of counter values.
Largest(S) == CHOOSE x \in S : \A y \in S : y <= x

\* A long run of interrupts of one line, each handled to its end before the
\* next, taken as one step: as many as bring the line's highest counter to
\* INT_MAX. Every entry hooked on the line is invoked that many times. It
\* happens once, while every counter still is what single deliveries made it.
IrqStorm(line) ==
    /\ \A c \in Cpus : cpu[c] = <<>>
    /\ \A k \in Slots : i2c_controller_list[k].isr_count \in 0..delivered
    /\ LET n == INT_MAX - Largest({ i2c_controller_list[k].isr_count :
                                     k \in HookedOn(line) })
       IN  /\ i2c_controller_list' =
                 [k \in Slots |->
                    IF k \in HookedOn(line)
                    THEN [i2c_controller_list[k] EXCEPT !.isr_count = @ + n]
                    ELSE i2c_controller_list[k]]
           /\ invoked' = [k \in Slots |->
                            IF k \in HookedOn(line) THEN invoked[k] + n
                            ELSE invoked[k]]
    /\ irq_ret' = "IRQ_HANDLED"
    /\ UNCHANGED <<catalog, ctlVars, i2c_controller_count, irqVars,
                   proc_entry, cpu, delivered, rdVars>>

\* ------------------------------------------------------------- the report

Digit(d) ==
    CASE d = 0 -> "0" [] d = 1 -> "1" [] d = 2 -> "2" [] d = 3 -> "3"
      [] d = 4 -> "4" [] d = 5 -> "5" [] d = 6 -> "6" [] d = 7 -> "7"
      [] d = 8 -> "8" [] OTHER -> "9"

\* The decimal digits of n >= 0, as %d prints them.
RECURSIVE FmtNat(_)
FmtNat(n) == IF n < 10 THEN Digit(n) ELSE FmtNat(n \div 10) \o Digit(n % 10)

\* printf's %d.
FmtInt(n) ==
    IF n = INT_MIN THEN "-2147483648"
    ELSE IF n < 0 THEN "-" \o FmtNat(-n) ELSE FmtNat(n)

\* A read that yields the counter's initial value, not its current one.
atomic_read_stale(v) == 0

\* atomic_read.
atomic_read(v) == v

\* A seq_printf that prints the line number twice.
ShowLineIrqTwice(k) ==
    "IRQ " \o FmtInt(i2c_controller_list[k].irq) \o ": "
           \o FmtInt(i2c_controller_list[k].irq) \o "\n"

\* The seq_printf of proc_show's loop body for entry k.
ShowLine(k) ==
    "IRQ " \o FmtInt(i2c_controller_list[k].irq) \o ": "
           \o FmtInt(atomic_read(i2c_controller_list[k].isr_count)) \o "\n"

\* A report of the entries hooked so far only.
ShowLimitHooked == i

\* proc_show's loop bound.
ShowLimit == i2c_controller_count

\* A read of the /proc entry begins: proc_show is entered with an empty
\* seq_file.
ProcOpen ==
    /\ proc_entry
    /\ rd_pc = "idle"
    /\ rd_pc' = "show"
    /\ rd_i' = 0
    /\ m' = ""
    /\ seen' = <<>>
    /\ rd_start' = [k \in 1..i2c_controller_count |->
                      i2c_controller_list[k - 1].isr_count]
    /\ UNCHANGED <<catalog, ctlVars, regVars, irqVars, proc_entry, cpuVars>>

\* A proc_show that clears each counter as it prints it.
ProcShowStepClear ==
    /\ rd_pc = "show"
    /\ IF rd_i < ShowLimit
       THEN /\ m' = m \o ShowLine(rd_i)
            /\ seen' = Append(seen,
                   atomic_read(i2c_controller_list[rd_i].isr_count))
            /\ i2c_controller_list' =
                  [i2c_controller_list EXCEPT ![rd_i].isr_count = 0]
            /\ rd_i' = rd_i + 1
            /\ rd_start' = Tail(rd_start)
            /\ UNCHANGED rd_pc
       ELSE /\ rd_pc' = "done"
            /\ UNCHANGED <<rd_i, m, seen, rd_start, i2c_controller_list>>
    /\ UNCHANGED <<catalog, ctlVars, i2c_controller_count, irqVars,
                   proc_entry, cpuVars>>

\* One turn of proc_show's loop, or its return 0, which hands the seq_file's
\* text to the reader.
ProcShowStep ==
    /\ rd_pc = "show"
    /\ IF rd_i < ShowLimit
       THEN /\ m' = m \o ShowLine(rd_i)
            /\ seen' = Append(seen,
                   atomic_read(i2c_controller_list[rd_i].isr_count))
            /\ rd_i' = rd_i + 1
            /\ rd_start' = Tail(rd_start)
            /\ UNCHANGED rd_pc
       ELSE /\ rd_pc' = "done"
            /\ UNCHANGED <<rd_i, m, seen, rd_start>>
    /\ UNCHANGED <<catalog, ctlVars, regVars, irqVars, proc_entry, cpuVars>>

\* The reader closes the file: the seq_file is released.
ProcRelease ==
    /\ rd_pc = "done"
    /\ rd_pc' = "idle"
    /\ rd_i' = 0
    /\ m' = ""
    /\ seen' = <<>>
    /\ rd_start' = <<>>
    /\ UNCHANGED <<catalog, ctlVars, regVars, irqVars, proc_entry, cpuVars>>

Next ==
    \/ Insmod
    \/ DetectStep
    \/ ModInitDetected
    \/ ModInitProcCreate
    \/ HookStep
    \/ ReleaseStep
    \/ ModInitHooked
    \/ Rmmod
    \/ ModExitRemove
    \/ \E c \in Cpus : \E line \in Lines : IrqDeliver(c, line)
    \/ \E c \in Cpus : IrqHandlerRun(c)
    \/ ProcOpen
    \/ ProcShowStep
    \/ ProcRelease

Spec == Init /\ [][Next]_vars

\* The scheduling the kernel gives: the control context, once in mod_init or
\* mod_exit, keeps running; a processor that took an interrupt runs its
\* handlers; a read runs to its end. remove_proc_entry admits no new read
\* while it waits for the one in progress, so it returns even if reads keep
\* coming. Loading and unloading are requests and need not happen.
Fairness ==
    /\ WF_vars(DetectStep)
    /\ WF_vars(ModInitDetected)
    /\ WF_vars(ModInitProcCreate)
    /\ WF_vars(HookStep)
    /\ WF_vars(ReleaseStep)
    /\ SF_vars(ModInitHooked)
    /\ SF_vars(ModExitRemove)
    /\ \A c \in Cpus : WF_vars(IrqHandlerRun(c))
    /\ WF_vars(ProcShowStep)
    /\ WF_vars(ProcRelease)

FairSpec == Spec /\ Fairness

\* The module with interrupt storms: the counters reach the end of their
\* 32 bits.
NextStorm ==
    \/ Next
    \/ \E line \in Lines : IrqStorm(line)

SpecStorm == Init /\ [][NextStorm]_vars

\* ------------------------------------------------------------- properties

\* The live entries of the registry, 0 .. i2c_controller_count - 1.
Live == 0..(i2c_controller_count - 1)

\* hook_interrupts has returned a failure to mod_init.
InstallFailed == pc = "hook_ret" /\ rc < 0

\* The entries the latest release_interrupts passed to free_irq.
Freed == { free_log[j].dev_id : j \in 1..Len(free_log) }

\* A device the enumeration is meant to pick: Intel, with a device id among
\* 0x51e8, 0x51e9, 0x51c5, 0x51c6.
Matches(d) ==
    d.vendor = 32902 /\ d.device \in {20968, 20969, 20933, 20934}
NumMatching == Cardinality({ k \in 1..Len(catalog) : Matches(catalog[k]) })
MatchingDevices == SelectSeq(catalog, Matches)

\* C1: when install fails at index k after registering [0,k), the rollback
\* issues exactly k free_irq calls, one for each entry of [0,k) and none for
\* an entry of [k,n).
C1_RollbackReleasesAcquired ==
    InstallFailed => Len(free_log) = count /\ Freed = 0..(count - 1)

\* C2: whenever install returns a failure, no registry entry still has an
\* observer registered.
C2_NoHookAfterFailedInstall == InstallFailed => irq_actions = {}

\* A failed install that had registered two observers before the refusal.
C2_Witness == InstallFailed /\ count = 2 /\ i2c_controller_count > 2

\* C3: once mod_init has returned a failure the module is unloaded with no
\* /proc entry and no observer; at rest the module is either active, with
\* the /proc entry and every entry hooked, or unloaded, with neither.
C3_ActiveOrUnloaded ==
    /\ (ret # <<>> /\ ret[1] < 0) =>
          pc = "unloaded" /\ ~proc_entry /\ irq_actions = {}
    /\ pc = "unloaded" => ~proc_entry /\ irq_actions = {}
    /\ pc = "active" =>
          proc_entry /\ irq_actions = { Action(k) : k \in Live }
    /\ ret # <<>> => pc \in {"unloaded", "active", "exit_release",
                             "exit_remove"}

\* A load that failed in install after one observer had been registered.
C3_Witness ==
    /\ pc = "unloaded"
    /\ ret # <<>>
    /\ ret[1] \in RequestIrqErrors
    /\ count >= 1
    /\ Len(free_log) >= 1

\* C4: with more matching controllers than the registry holds, detection
\* fails with -ENOBUFS, mod_init returns it, and no observer is registered
\* and no /proc entry created at any time.
C4_OverCapacityLoadsNothing ==
    NumMatching > I2C_CONTROLLER_MAX =>
       /\ irq_actions = {}
       /\ ~proc_entry
       /\ pc \in {"unloaded", "detect", "detect_ret"}
       /\ pc = "detect_ret" => rc = -ENOBUFS
       /\ ret # <<>> => ret = <<-ENOBUFS>>

\* The load of a catalog of 17 matching controllers has failed.
C4_Witness ==
    /\ NumMatching = I2C_CONTROLLER_MAX + 1
    /\ pc = "unloaded"
    /\ ret = <<-ENOBUFS>>

\* C5: detection of a catalog with at most I2C_CONTROLLER_MAX matching
\* devices succeeds, with as many live entries as matching devices.
C5_WithinCapacitySucceeds ==
    (pc = "detect_ret" /\ NumMatching <= I2C_CONTROLLER_MAX) =>
        rc = 0 /\ i2c_controller_count = NumMatching

\* C6: after a successful detection the registry holds one entry per matching
\* device, in catalog order, with the device's interrupt line, and nothing
\* else.
C6_RegistryIsMatchingDevices ==
    (pc = "detect_ret" /\ rc = 0) =>
       /\ i2c_controller_count = Len(MatchingDevices)
       /\ \A k \in Live :
             i2c_controller_list[k].irq = MatchingDevices[k + 1].irq

\* Detection of the four whitelisted ids interleaved with two devices that
\* do not match has succeeded; lines 5 and 9 both occur twice.
C6_Witness ==
    /\ pc = "detect_ret"
    /\ rc = 0
    /\ Len(catalog) = 6
    /\ i2c_controller_count = 4
    /\ i2c_controller_list[0].irq = i2c_controller_list[1].irq

\* C7: an entry's counter equals the number of irq_handler invocations made
\* on it, however the invocations of the processors interleave.
C7_NoLostIncrement ==
    \A k \in Slots : i2c_controller_list[k].isr_count = invoked[k]

\* Two processors are each in the middle of an interrupt of one shared
\* line: both have invoked the handler on entry 0, which counts 2, and both
\* are about to invoke it on entry 1.
C7_Witness ==
    /\ invoked[0] = 2
    /\ i2c_controller_list[0].isr_count = 2
    /\ \A c \in {1, 2} : cpu[c] # <<>> /\ Head(cpu[c]) = 1

\* C8: release_interrupts never passes free_irq a registration that is not
\* held; on an empty hook set it calls nothing.
C8_ReleaseOnlyHeld ==
    \A j \in 1..Len(free_log) : free_log[j].held

\* The text of rd_i lines, "IRQ <line>: <value fetched>".
RECURSIVE Expected(_)
Expected(n) ==
    IF n = 0 THEN ""
    ELSE Expected(n - 1) \o "IRQ "
           \o ToString(i2c_controller_list[n - 1].irq) \o ": "
           \o ToString(seen[n]) \o "\n"

\* C9: proc_show prints one line per registry entry, in registry order,
\* "IRQ <identifier>: <counter>", and nothing else.
C9_ReportFormat ==
    /\ rd_pc \in {"show", "done"} =>
          /\ rd_i <= i2c_controller_count
          /\ Len(seen) = rd_i
          /\ m = Expected(rd_i)
          /\ \A k \in 0..(rd_i - 1) :
                /\ seen[k + 1] <= i2c_controller_list[k].isr_count
                /\ (delivered = 0 => seen[k + 1] = 0)
    /\ rd_pc = "done" => rd_i = i2c_controller_count

\* A finished read of two entries, the first counted twice.
C9_Witness == rd_pc = "done" /\ m = "IRQ 5: 2\nIRQ 9: 0\n"

\* C10: the hook set is never larger than the registry's live length; it is
\* all of the live entries when active and empty when unloaded.
C10_HookSetSize ==
    /\ Cardinality(irq_actions) <= i2c_controller_count
    /\ irq_actions \subseteq { Action(k) : k \in Live }
    /\ pc = "active" => Cardinality(irq_actions) = i2c_controller_count
    /\ pc = "unloaded" => Cardinality(irq_actions) = 0

\* Active with three entries hooked.
C10_Witness ==
    /\ pc = "active"
    /\ i2c_controller_count = 3
    /\ Cardinality(irq_actions) = 3

\* C11: the live length stays within 0 .. I2C_CONTROLLER_MAX in every state,
\* after a failed detection too, and every record detection writes goes to a
\* slot below I2C_CONTROLLER_MAX (the write is the step that raises the live
\* length, to the slot it held before).
C11_LiveLengthWithinCapacity ==
    /\ [](i2c_controller_count \in 0..I2C_CONTROLLER_MAX)
    /\ [][i2c_controller_count' # i2c_controller_count =>
            /\ i2c_controller_count \in Slots
            /\ i2c_controller_count' = i2c_controller_count + 1]_vars

\* A failed detection has filled the last slot.
C11_Witness ==
    /\ pc = "detect_ret"
    /\ rc = -ENOBUFS
    /\ i2c_controller_count = I2C_CONTROLLER_MAX
    /\ i2c_controller_list[I2C_CONTROLLER_MAX - 1].irq # 0

\* Entry k holds the line of the (k+1)-th matching device of the catalog.
Populated(k) ==
    /\ k < Len(MatchingDevices)
    /\ i2c_controller_list[k].irq = MatchingDevices[k + 1].irq

\* C12: no observer is registered, and none runs, before detection has
\* succeeded; whenever install runs or an observer is registered or invoked,
\* detection has walked the whole catalog and every live entry, and the entry
\* an invocation receives, is populated; active is entered only with an
\* observer registered for every entry.
C12_DetectBeforeHookBeforeActive ==
    /\ (pc \in {"detect", "detect_ret", "proc_create"}
           \/ (pc = "unloaded" /\ ret = <<>>)) =>
          irq_actions = {} /\ \A c \in Cpus : cpu[c] = <<>>
    /\ (pc = "hook" \/ irq_actions # {}) =>
          /\ dev = NULL
          /\ i2c_controller_count = NumMatching
          /\ \A k \in Live : Populated(k)
    /\ pc = "active" =>
          \A k \in Live : <<i2c_controller_list[k].irq, k>> \in irq_actions
    /\ \A c \in Cpus : \A k \in Pending(c) : k \in Live /\ Populated(k)

\* An observer is being invoked while install has registered one of two
\* entries.
C12_Witness ==
    /\ pc = "hook"
    /\ i = 1
    /\ i2c_controller_count = 2
    /\ \E c \in Cpus : cpu[c] = <<0>>

\* The free_irq calls of a release that has got to entry n: one for each of
\* the entries before it, each for a registration that was held.
ReleasedOnce(n) ==
    /\ Len(free_log) = n
    /\ \A j \in 1..n : free_log[j] = [dev_id |-> j - 1, held |-> TRUE]

\* C13: an unload from active releases every registration exactly once while
\* the /proc entry still exists, then removes the entry, and ends unloaded
\* with no registration and no entry.
C13_UnloadReleasesThenRemoves ==
    /\ pc = "exit_release" =>
          /\ proc_entry
          /\ ReleasedOnce(ri)
          /\ irq_actions =
                { <<i2c_controller_list[k].irq, k>> :
                     k \in ri..(i2c_controller_count - 1) }
    /\ pc = "exit_remove" =>
          proc_entry /\ irq_actions = {} /\ ReleasedOnce(i2c_controller_count)
    /\ (pc = "unloaded" /\ ret = <<0>>) =>
          ~proc_entry /\ irq_actions = {} /\ ReleasedOnce(i2c_controller_count)

\* An unload of three hooked entries has ended.
C13_Witness ==
    /\ pc = "unloaded"
    /\ ret = <<0>>
    /\ i2c_controller_count = 3
    /\ Len(free_log) = 3

\* C14: an invocation of irq_handler on entry p raises p's counter by one,
\* returns IRQ_HANDLED, and changes no other counter, no identifier, not the
\* live length, not the hook set, nor anything of the control context or a
\* read.
C14_HandlerFrame ==
    [][invoked' # invoked =>
         \E c \in Cpus :
            /\ cpu[c] # <<>>
            /\ cpu' = [cpu EXCEPT ![c] = Tail(@)]
            /\ invoked' = [invoked EXCEPT ![Head(cpu[c])] = @ + 1]
            /\ i2c_controller_list' =
                  [i2c_controller_list EXCEPT
                     ![Head(cpu[c])].isr_count = @ + 1]
            /\ irq_ret' = "IRQ_HANDLED"
            /\ UNCHANGED <<catalog, ctlVars, i2c_controller_count, irqVars,
                           proc_entry, delivered, rdVars>>]_vars

\* Of two hooked entries on different lines the second has been invoked
\* once and the first never.
C14_Witness ==
    /\ pc = "active"
    /\ i2c_controller_count = 2
    /\ i2c_controller_list[0].irq # i2c_controller_list[1].irq
    /\ i2c_controller_list[0].isr_count = 0
    /\ i2c_controller_list[1].isr_count = 1
    /\ irq_ret = "IRQ_HANDLED"

\* C15: once detection has returned no step changes the live length or an
\* entry's identifier; a counter changes only by one, in a step that is an
\* invocation of the observer on that entry; a step of a read changes
\* nothing of the registry.
C15_RegistryFrozenAfterDetect ==
    [][pc # "detect" =>
         /\ i2c_controller_count' = i2c_controller_count
         /\ \A k \in Slots :
               /\ i2c_controller_list'[k].irq = i2c_controller_list[k].irq
               /\ i2c_controller_list'[k].isr_count
                     # i2c_controller_list[k].isr_count =>
                     /\ i2c_controller_list'[k].isr_count
                           = i2c_controller_list[k].isr_count + 1
                     /\ invoked'[k] = invoked[k] + 1
         /\ rdVars' # rdVars => i2c_controller_list' = i2c_controller_list]_vars

\* After install, an observer invocation, a finished read and the release
\* of the hooks at unload, the registry still has its two entries, the first
\* counted once.
C15_Witness ==
    /\ pc = "exit_remove"
    /\ ret = <<0>>
    /\ rd_pc = "done"
    /\ i2c_controller_count = 2
    /\ i2c_controller_list[0].isr_count = 1
    /\ seen = <<1, 0>>

\* C16: an entry's counter is never negative and never decreases.
C16_CounterMonotone ==
    /\ [](\A k \in Slots : i2c_controller_list[k].isr_count >= 0)
    /\ [][\A k \in Slots :
            i2c_controller_list'[k].isr_count
               >= i2c_controller_list[k].isr_count]_vars

\* C17: the value a read prints for an entry is the value the counter held
\* at the instant of the fetch, which is at least its value when the read
\* began and at most its value at any later time, the end of the read
\* included; the values of different lines need not be of one instant.
C17_PrintedValueWasHeld ==
    /\ [](rd_pc \in {"show", "done"} =>
            /\ Len(rd_start) = i2c_controller_count - rd_i
            /\ \A k \in 0..(rd_i - 1) :
                  seen[k + 1] <= i2c_controller_list[k].isr_count)
    /\ [][rd_i' = rd_i + 1 =>
            /\ seen'[rd_i'] = i2c_controller_list[rd_i].isr_count
            /\ Head(rd_start) <= seen'[rd_i']]_vars

\* A finished read of two entries of one line printed 0 for the first and 1
\* for the second, though the second is never counted before the first: the
\* first was fetched before an interrupt and the second after it.
C17_Witness ==
    /\ rd_pc = "done"
    /\ i2c_controller_count = 2
    /\ i2c_controller_list[0].irq = i2c_controller_list[1].irq
    /\ seen = <<0, 1>>

\* C18: every load, once begun, ends active or unloaded, and every unload,
\* once begun, ends unloaded.
C18_LoadAndUnloadTerminate ==
    /\ (pc = "detect") ~> (pc \in {"active", "unloaded"})
    /\ (pc = "exit_release") ~> (pc = "unloaded")

\* A load has ended active and the unload that followed has ended.
C18_Witness ==
    /\ pc = "unloaded"
    /\ ret = <<0>>
    /\ i2c_controller_count = 2

\* The entries with an observer registered on a line, each under its own
\* context.
ObservedOn(line) == { k \in Live : <<line, k>> \in irq_actions }

\* C19: install registers one observer per entry, under the entry's own
\* context, entries of one line included; an interrupt of a line invokes the
\* observer once for each entry hooked on it, and each invocation counts one
\* on its entry; releasing an entry removes that entry's registration only.
C19_SharedLineObservers ==
    /\ [](pc = "active" =>
            /\ \A k \in Live :
                  <<i2c_controller_list[k].irq, k>> \in irq_actions
            /\ Cardinality(irq_actions) = i2c_controller_count)
    /\ [][delivered' = delivered + 1 =>
            \E c \in Cpus : \E line \in Lines :
               /\ cpu[c] = <<>>
               /\ Len(cpu'[c]) = Cardinality(ObservedOn(line))
               /\ { cpu'[c][j] : j \in 1..Len(cpu'[c]) } = ObservedOn(line)
               /\ \A d \in Cpus \ {c} : cpu'[d] = cpu[d]]_vars
    /\ [][\A c \in Cpus :
            (cpu[c] # <<>> /\ cpu'[c] = Tail(cpu[c])) =>
               i2c_controller_list'[Head(cpu[c])].isr_count
                  = i2c_controller_list[Head(cpu[c])].isr_count + 1]_vars
    /\ [][ri' = ri + 1 =>
            irq_actions' =
               irq_actions \ {<<i2c_controller_list[ri].irq, ri>>}]_vars

\* Two entries of one line were both counted once by one interrupt; the
\* first has been released and the second is still registered.
C19_Witness ==
    /\ pc = "exit_release"
    /\ ri = 1
    /\ i2c_controller_count = 2
    /\ i2c_controller_list[0].irq = i2c_controller_list[1].irq
    /\ irq_actions = {<<i2c_controller_list[1].irq, 1>>}
    /\ delivered = 1
    /\ i2c_controller_list[0].isr_count = 1
    /\ i2c_controller_list[1].isr_count = 1

\* C20: the /proc entry exists exactly from its creation, after a successful
\* detection and before install, until the failed install or the unload
\* removes it: never when unloaded, always when active. A read is served
\* only while it exists, during install and rollback too, and then prints
\* one line for each live entry of a fully populated registry.
C20_EndpointLifetime ==
    /\ proc_entry <=> pc \in {"hook", "rollback", "hook_ret", "active",
                              "exit_release", "exit_remove"}
    /\ rd_pc # "idle" =>
          /\ proc_entry
          /\ dev = NULL
          /\ i2c_controller_count = NumMatching
          /\ \A k \in Live : Populated(k)
    /\ rd_pc = "done" =>
          rd_i = i2c_controller_count /\ Len(seen) = i2c_controller_count

\* A read of both entries has ended while the rollback of a failed install,
\* which had hooked one of them, is still going.
C20_Witness ==
    /\ pc = "rollback"
    /\ count = 1
    /\ ri = 0
    /\ rd_pc = "done"
    /\ i2c_controller_count = 2
    /\ rd_i = 2
====
